---- MODULE Spec2Model ----
(***************************************************************************)
(* Model of src/prototype.py: the USD/MAD Value-at-Risk pipeline           *)
(* (validate_inputs, get_taux_usd_mad, calculer_var).                      *)
(*                                                                         *)
(* Numbers.  A Python float is modelled as a record [n, d]: the rational   *)
(* n/d in lowest terms with d > 0, or NaN, written 0/0.  Comparisons       *)
(* follow IEEE-754 as Python applies it: every ordered comparison with a   *)
(* NaN operand is false.  ln is transcendental and is kept as a symbolic   *)
(* term [ln |-> x, k |-> c] standing for c * ln(x).                        *)
(***************************************************************************)
EXTENDS Integers, Sequences, FiniteSets, TLC

VARIABLES
    pc,            \* position of the invocation of calculer_var
    montant_usd,   \* argument of calculer_var
    date_fact,     \* argument of calculer_var (text of the invoice date)
    date_ech,      \* argument of calculer_var (text of the settlement date)
    stress_test,   \* argument of calculer_var
    horizon,       \* horizon returned by validate_inputs
    taux_usd_mad,  \* latest quote returned by get_taux_usd_mad
    data,          \* rows returned by the historical download
    taux,          \* data's price column after dropna()
    returns_pct,   \* log-returns in percent handed to arch_model
    vol_current_pct, \* latest conditional volatility of the fit, in percent
    vol_current,   \* the same as a decimal; clamped by line 80
    dof,           \* fitted Student-t degrees of freedom (params['nu'])
    calls,         \* network calls issued so far, in order
    fits,          \* number of times the model fit was started
    result         \* what calculer_var returned

vars == <<pc, montant_usd, date_fact, date_ech, stress_test, horizon,
          taux_usd_mad, data, taux, returns_pct, vol_current_pct, vol_current,
          dof, calls, fits, result>>

(***************************************************************************)
(* Floating-point values                                                   *)
(***************************************************************************)
NaN == [n |-> 0, d |-> 0]

IsNaN(x) == x.d = 0

AbsInt(i) == IF i < 0 THEN -i ELSE i

RECURSIVE Gcd(_, _)
Gcd(a, b) == IF b = 0 THEN a ELSE Gcd(b, a % b)

\* the rational a/b (b # 0) in lowest terms with a positive denominator
R(a, b) ==
    LET g == Gcd(AbsInt(a), AbsInt(b))
        s == IF b < 0 THEN -1 ELSE 1
    IN [n |-> (s * a) \div g, d |-> (s * b) \div g]

I(i) == [n |-> i, d |-> 1]

\* x * y, cancelling across the fraction bar before multiplying
Mul(x, y) ==
    IF IsNaN(x) \/ IsNaN(y) THEN NaN
    ELSE LET g1 == Gcd(AbsInt(x.n), y.d)
             g2 == Gcd(AbsInt(y.n), x.d)
         IN R((x.n \div g1) * (y.n \div g2), (x.d \div g2) * (y.d \div g1))

\* x / y; the code divides by non-zero literals and by prices only
Div(x, y) ==
    IF IsNaN(x) \/ IsNaN(y) \/ y.n = 0 THEN NaN ELSE Mul(x, R(y.d, y.n))

Sub(x, y) ==
    IF IsNaN(x) \/ IsNaN(y) THEN NaN
    ELSE LET g == Gcd(x.d, y.d)
         IN R(x.n * (y.d \div g) - y.n * (x.d \div g), (x.d \div g) * y.d)

Abs(x) == IF IsNaN(x) THEN NaN ELSE [n |-> AbsInt(x.n), d |-> x.d]

\* Python's <, <=, > on floats: false as soon as an operand is NaN
\* (the denominators' common factor is cancelled before cross-multiplying)
Lt(x, y) ==
    /\ ~IsNaN(x) /\ ~IsNaN(y)
    /\ LET g == Gcd(x.d, y.d) IN x.n * (y.d \div g) < y.n * (x.d \div g)
Le(x, y) ==
    /\ ~IsNaN(x) /\ ~IsNaN(y)
    /\ LET g == Gcd(x.d, y.d) IN x.n * (y.d \div g) <= y.n * (x.d \div g)
Gt(x, y) == Lt(y, x)

\* the builtins min(a, b) and max(a, b): the first argument is kept unless
\* the second compares strictly smaller (larger)
PyMin(a, b) == IF Lt(b, a) THEN b ELSE a
PyMax(a, b) == IF Gt(b, a) THEN b ELSE a

\* floor of the square root of m, by bisection of lo..hi (lo^2 <= m < hi^2)
RECURSIVE Bisect(_, _, _)
Bisect(m, lo, hi) ==
    IF hi - lo <= 1 THEN lo
    ELSE LET mid == (lo + hi) \div 2
         IN IF mid * mid <= m THEN Bisect(m, mid, hi) ELSE Bisect(m, lo, mid)

\* m < 46341^2, the largest square the integers of the model hold
ISqrt(m) == Bisect(m, 0, 46341)

\* np.sqrt of a non-negative value, to 2 decimals
Sqrt(x) ==
    IF IsNaN(x) \/ x.n < 0 THEN NaN
    ELSE R(ISqrt((x.n * 10000) \div x.d), 100)

\* np.log of a positive value, kept symbolic; NaN propagates
Log(x) == IF IsNaN(x) THEN [ln |-> NaN, k |-> 0, d |-> 0]
          ELSE [ln |-> x, k |-> 1, d |-> 1]

\* multiplication of a log term by an integer constant
Scale(t, c) == IF IsNaN(t) THEN t ELSE [ln |-> t.ln, k |-> t.k * c, d |-> 1]

(***************************************************************************)
(* Dates: pd.to_datetime, Timestamp comparison, Timedelta.days             *)
(*                                                                         *)
(* A date text is [kind, y, m, d]: kind "ymd" is a text of the form        *)
(* YYYY-MM-DD with the three numbers read from it, kind "empty" is the     *)
(* empty text (one of pandas' NaT spellings) and kind "other" is any text  *)
(* that holds no date.                                                     *)
(***************************************************************************)
Ymd(y, m, d) == [kind |-> "ymd", y |-> y, m |-> m, d |-> d]
EmptyText == [kind |-> "empty", y |-> 0, m |-> 0, d |-> 0]
OtherText == [kind |-> "other", y |-> 0, m |-> 0, d |-> 0]

IsLeap(y) == (y % 4 = 0 /\ y % 100 # 0) \/ y % 400 = 0

DaysInMonth(y, m) ==
    IF m = 2 THEN (IF IsLeap(y) THEN 29 ELSE 28)
    ELSE IF m \in {4, 6, 9, 11} THEN 30 ELSE 31

RECURSIVE DaysBeforeMonth(_, _)
DaysBeforeMonth(y, m) ==
    IF m <= 1 THEN 0 ELSE DaysInMonth(y, m - 1) + DaysBeforeMonth(y, m - 1)

\* days from 0001-01-01 to the first day of year y
DaysBeforeYear(y) ==
    LET p == y - 1 IN 365 * p + p \div 4 - p \div 100 + p \div 400

\* ordinal of a calendar date
Ordinal(y, m, d) == DaysBeforeYear(y) + DaysBeforeMonth(y, m) + d

IsCalendarDate(y, m, d) ==
    /\ y \in 1..9999
    /\ m \in 1..12
    /\ d \in 1..DaysInMonth(y, m)

\* pd.to_datetime(text): a Timestamp (midnight of the day), NaT for the
\* empty text, or ValueError for a text that holds no calendar date
ToDatetime(s) ==
    IF s.kind = "empty" THEN [raised |-> FALSE, nat |-> TRUE, day |-> 0]
    ELSE IF s.kind = "ymd" /\ IsCalendarDate(s.y, s.m, s.d)
         THEN [raised |-> FALSE, nat |-> FALSE, day |-> Ordinal(s.y, s.m, s.d)]
         ELSE [raised |-> TRUE, nat |-> FALSE, day |-> 0]

\* Timestamp < Timestamp; any comparison with NaT is False
TsLt(a, b) == ~a.nat /\ ~b.nat /\ a.day < b.day

\* (a - b).days: an int, or nan when the difference is NaT
TsDays(a, b) == IF a.nat \/ b.nat THEN NaN ELSE I(a.day - b.day)

(***************************************************************************)
(* validate_inputs                                                         *)
(***************************************************************************)
MsgMontant == "Le montant doit etre positif."
MsgDates   == "Les dates doivent etre au format YYYY-MM-DD."
MsgOrdre   == "La date d'echeance doit etre posterieure a la date de facturation."
MsgHorizon == "L'horizon doit etre d'au moins 1 jour."

Raise(m)  == [raised |-> TRUE, msg |-> m, value |-> NaN]
Return(v) == [raised |-> FALSE, msg |-> "", value |-> v]

validate_inputs(montant, fact, ech) ==
    IF Le(montant, I(0)) THEN Raise(MsgMontant)
    ELSE LET f == ToDatetime(fact)
             e == ToDatetime(ech)
         IN IF f.raised \/ e.raised THEN Raise(MsgDates)
            ELSE IF TsLt(e, f) THEN Raise(MsgOrdre)
            ELSE IF Lt(TsDays(e, f), I(1)) THEN Raise(MsgHorizon)
            ELSE Return(TsDays(e, f))

(***************************************************************************)
(* get_taux_usd_mad: the latest intraday quote                             *)
(***************************************************************************)
MsgTauxVide == "Impossible de recuperer le taux USD/MAD en temps reel."
MsgTauxNaN  == "Les donnees de cloture USD/MAD sont toutes NaN."
MsgReseau   == "download failed"

DropNa(s) == SelectSeq(s, LAMBDA x : ~IsNaN(x))

\* what yf.download(period="1d", interval="1m") can hand back: an exception,
\* no rows, or rows whose Close is a price or missing
QuoteDownloads ==
    { [raised |-> TRUE, close |-> <<>>],
      [raised |-> FALSE, close |-> <<>>],
      [raised |-> FALSE, close |-> <<NaN, NaN>>],
      [raised |-> FALSE, close |-> <<I(10), NaN>>],
      [raised |-> FALSE, close |-> <<NaN, I(10), I(8)>>] }

\* the function's own try/except turns every exception into a returned text
get_taux_usd_mad(dl) ==
    IF dl.raised THEN [text |-> TRUE, msg |-> MsgReseau, value |-> NaN]
    ELSE IF Len(dl.close) = 0
         THEN [text |-> TRUE, msg |-> MsgTauxVide, value |-> NaN]
    ELSE IF \A i \in 1..Len(dl.close) : IsNaN(dl.close[i])
         THEN [text |-> TRUE, msg |-> MsgTauxNaN, value |-> NaN]
    ELSE LET kept == DropNa(dl.close)
         IN [text |-> FALSE, msg |-> "", value |-> kept[Len(kept)]]

(***************************************************************************)
(* The historical download and the sample-size check                       *)
(***************************************************************************)
MsgHistVide == "Impossible de recuperer les donnees historiques."
MsgHistInsuffisant == "Donnees historiques insuffisantes (< 250 observations)."

\* the minimum number of usable observations
MinObs == 250

\* rows the feed may return beyond MinObs, and missing prices per pattern
ExtraRows == 1
MaxMissing == 2

\* a daily close, in MAD per USD; neighbouring days differ
Price(i) == R(1000 + ((i * 7) % 11), 100)

Series(n, miss) == [i \in 1..n |-> IF i \in miss THEN NaN ELSE Price(i)]

RowCounts == {0} \cup ((MinObs - 1)..(MinObs + ExtraRows))

\* where prices are missing: at the head, at the tail, inside, or everywhere
MissingSets(n) ==
    { S \in ( { 1..k : k \in 0..MaxMissing }
              \cup { (n - k + 1)..n : k \in 0..MaxMissing }
              \cup { { 2 * j + 1 : j \in 1..k } : k \in 0..MaxMissing }
              \cup { 1..n } ) : S \subseteq 1..n }

\* a frame of n rows: a Close column and, for some feeds, an Adj Close column
Frame(n, miss, hasAdj) ==
    [raised |-> FALSE, hasAdj |-> hasAdj,
     Close |-> IF hasAdj THEN Series(n, {}) ELSE Series(n, miss),
     AdjClose |-> IF hasAdj THEN Series(n, miss) ELSE <<>>]

\* what yf.download(start, end) can hand back: an exception or a frame
HistDownloads ==
    { [raised |-> TRUE, hasAdj |-> FALSE, Close |-> <<>>, AdjClose |-> <<>>] }
    \cup UNION { { Frame(n, m, a) : m \in MissingSets(n), a \in BOOLEAN } :
                 n \in RowCounts }

\* data['Adj Close'] if 'Adj Close' in data.columns else data['Close']
PriceColumn(frame) == IF frame.hasAdj THEN frame.AdjClose ELSE frame.Close

\* Historical with the sample-size test off by one (len(taux) < 249):
\* C5_MinimumSample must not survive it
HistoricalOffByOne(frame) ==
    IF frame.raised THEN Raise(MsgReseau)
    ELSE IF Len(frame.Close) = 0 THEN Raise(MsgHistVide)
    ELSE IF Len(DropNa(PriceColumn(frame))) < MinObs - 1 THEN Raise(MsgHistInsuffisant)
    ELSE Return(DropNa(PriceColumn(frame)))

\* lines 58-64: the frame's usable prices, or the exception raised
Historical(frame) ==
    IF frame.raised THEN Raise(MsgReseau)
    ELSE IF Len(frame.Close) = 0 THEN Raise(MsgHistVide)
    ELSE IF Len(DropNa(PriceColumn(frame))) < MinObs THEN Raise(MsgHistInsuffisant)
    ELSE Return(DropNa(PriceColumn(frame)))

(***************************************************************************)
(* Log-returns in percent                                                  *)
(***************************************************************************)
\* Series.shift(1): every price moves one row down, the first row is NaN
Shift(s) == [i \in 1..Len(s) |-> IF i = 1 THEN NaN ELSE s[i - 1]]

\* ToLogReturnsPct without the dropna() after the differencing:
\* C6_ReturnTransform must not survive it
ToLogReturnsPctKeepNa(s) ==
    LET ratio == [i \in 1..Len(s) |-> Div(s[i], Shift(s)[i])]
        logs  == [i \in 1..Len(s) |-> Log(ratio[i])]
    IN [i \in 1..Len(logs) |-> Scale(logs[i], 100)]

\* np.log(taux / taux.shift(1)).dropna() * 100
ToLogReturnsPct(s) ==
    LET ratio == [i \in 1..Len(s) |-> Div(s[i], Shift(s)[i])]
        logs  == [i \in 1..Len(s) |-> Log(ratio[i])]
        kept  == DropNa(logs)
    IN [i \in 1..Len(kept) |-> Scale(kept[i], 100)]

(***************************************************************************)
(* The model fit, the clamp and the VaR arithmetic                         *)
(***************************************************************************)
MsgFit == "model fit failed"

\* result.conditional_volatility.iloc[-1], in percent
FitVolsPct ==
    { NaN, I(0), R(1, 10), R(400, 2015), R(1, 4), R(600, 2015), R(1, 2) }

\* result.params['nu']
FitNus == { NaN, I(3), I(5), I(30) }

\* what arch_model(...).fit(disp="off") can hand back
FitOutcomes ==
    { [raised |-> TRUE, vol_pct |-> NaN, nu |-> NaN] }
    \cup { [raised |-> FALSE, vol_pct |-> v, nu |-> nu] : v \in FitVolsPct, nu \in FitNus }

vol_min == Div(Div(R(4, 10), I(100)), R(2015, 1000))
vol_max == Div(Div(R(6, 10), I(100)), R(2015, 1000))

\* max(min(vol_current, vol_max), vol_min)
Clamp(v) == PyMax(PyMin(v, vol_max), vol_min)

\* scipy.stats.t.ppf(p, dof) for p = 0.05 and p = 0.01, to 3 decimals
Tppf(p, nu) ==
    IF IsNaN(nu) THEN NaN
    ELSE IF p = R(5, 100)
         THEN CASE nu = I(3) -> R(-2353, 1000)
                [] nu = I(5) -> R(-2015, 1000)
                [] nu = I(30) -> R(-1697, 1000)
                [] OTHER -> NaN
    ELSE IF p = R(1, 100)
         THEN CASE nu = I(3) -> R(-4541, 1000)
                [] nu = I(5) -> R(-3365, 1000)
                [] nu = I(30) -> R(-2457, 1000)
                [] OTHER -> NaN
    ELSE NaN

\* abs(t.ppf(p, dof)) * vol_current
DailyVaR(p, nu, vol) == Mul(Abs(Tppf(p, nu)), vol)

\* HorizonVaR dividing by the square root of the horizon:
\* C7_Monotone must not survive it
HorizonVaRDivides(p, nu, vol, h) == Div(DailyVaR(p, nu, vol), Sqrt(h))

\* quantile * vol_current * np.sqrt(horizon)
HorizonVaR(p, nu, vol, h) == Mul(DailyVaR(p, nu, vol), Sqrt(h))

(***************************************************************************)
(* The report text and the error texts                                     *)
(***************************************************************************)
\* n / d rounded to the nearest integer, ties to even (d > 0)
RoundDiv(n, d) ==
    LET q == n \div d
        r == n - q * d
    IN IF 2 * r < d THEN q
       ELSE IF 2 * r > d THEN q + 1
       ELSE IF q % 2 = 0 THEN q ELSE q + 1

RECURSIVE Pow10(_)
Pow10(k) == IF k = 0 THEN 1 ELSE 10 * Pow10(k - 1)

\* format(x, ".<dec>f"): the digits of x rounded to dec decimals, or "nan"
Fmt(x, dec) ==
    IF IsNaN(x) THEN [nan |-> TRUE, units |-> 0, dec |-> dec]
    ELSE LET y == Mul(x, I(Pow10(dec)))
         IN [nan |-> FALSE, units |-> RoundDiv(y.n, y.d), dec |-> dec]

NoParam == [nan |-> FALSE, units |-> 0, dec |-> 0]

Line(label, param, value) == [label |-> label, param |-> param, value |-> value]

LblTaux         == "Taux USD/MAD actuel"
LblComptabilise == "Montant comptabilise a la date de facturation"
LblEstime       == "Montant estime au reglement (scenario defavorable)"
LblVarJour      == "VaR journaliere (en %)"
LblVarHorizon   == "VaR horizon {horizon} jours (en %)"
LblPerte        == "Perte potentielle maximale"
LblVarStress    == "VaR stressee (en %)"
LblPerteStress  == "Perte stressee"

\* Resume with the potential loss taken from the stressed VaR when stress
\* testing is on: C10_StressFrame must not survive it
ResumeStressLeak(montant, h, rate, vol, nu, stress) ==
    LET var_journaliere      == DailyVaR(R(5, 100), nu, vol)
        var_horizon          == HorizonVaR(R(5, 100), nu, vol, h)
        var_horizon_stress   == HorizonVaR(R(1, 100), nu, vol, h)
        montant_comptabilise == Mul(montant, rate)
        perte_potentielle    ==
            Mul(Mul(IF stress THEN var_horizon_stress ELSE var_horizon, montant), rate)
        perte_potentielle_stress == Mul(Mul(var_horizon_stress, montant), rate)
        base == << Line(LblTaux, NoParam, Fmt(rate, 4)),
                   Line(LblComptabilise, NoParam, Fmt(montant_comptabilise, 0)),
                   Line(LblEstime, NoParam,
                        Fmt(Sub(montant_comptabilise, perte_potentielle), 0)),
                   Line(LblVarJour, NoParam, Fmt(Mul(var_journaliere, I(100)), 4)),
                   Line(LblVarHorizon, Fmt(h, 0), Fmt(Mul(var_horizon, I(100)), 4)),
                   Line(LblPerte, NoParam, Fmt(perte_potentielle, 0)) >>
    IN IF stress
       THEN base \o << Line(LblVarStress, NoParam,
                            Fmt(Mul(var_horizon_stress, I(100)), 4)),
                       Line(LblPerteStress, NoParam, Fmt(perte_potentielle_stress, 0)) >>
       ELSE base

\* lines 84-120 of calculer_var: the VaR arithmetic and the formatted text
Resume(montant, h, rate, vol, nu, stress) ==
    LET var_journaliere      == DailyVaR(R(5, 100), nu, vol)
        var_journaliere_pct  == Mul(var_journaliere, I(100))
        var_horizon          == HorizonVaR(R(5, 100), nu, vol, h)
        var_horizon_pct      == Mul(var_horizon, I(100))
        montant_comptabilise == Mul(montant, rate)
        perte_potentielle    == Mul(Mul(var_horizon, montant), rate)
        montant_estime       == Sub(montant_comptabilise, perte_potentielle)
        var_horizon_stress   == HorizonVaR(R(1, 100), nu, vol, h)
        var_horizon_stress_pct   == Mul(var_horizon_stress, I(100))
        perte_potentielle_stress == Mul(Mul(var_horizon_stress, montant), rate)
        base == << Line(LblTaux, NoParam, Fmt(rate, 4)),
                   Line(LblComptabilise, NoParam, Fmt(montant_comptabilise, 0)),
                   Line(LblEstime, NoParam, Fmt(montant_estime, 0)),
                   Line(LblVarJour, NoParam, Fmt(var_journaliere_pct, 4)),
                   Line(LblVarHorizon, Fmt(h, 0), Fmt(var_horizon_pct, 4)),
                   Line(LblPerte, NoParam, Fmt(perte_potentielle, 0)) >>
    IN IF stress
       THEN base \o << Line(LblVarStress, NoParam, Fmt(var_horizon_stress_pct, 4)),
                       Line(LblPerteStress, NoParam, Fmt(perte_potentielle_stress, 0)) >>
       ELSE base

NoResult == [kind |-> "none", prefix |-> "", msg |-> "", lines |-> <<>>]

\* return resume
Report(lines) == [kind |-> "report", prefix |-> "", msg |-> "", lines |-> lines]

\* ExceptHandler letting the exception leave calculer_var:
\* C3_ReportOrError must not survive it
ExceptHandlerEscapes(m) ==
    [kind |-> "exception", prefix |-> "", msg |-> m, lines |-> <<>>]

\* except Exception as e: return f"Erreur : {str(e)}"
ExceptHandler(m) ==
    [kind |-> "error", prefix |-> "Erreur : ", msg |-> m, lines |-> <<>>]

\* if isinstance(taux_usd_mad, str): return taux_usd_mad
TauxErreur(m) ==
    [kind |-> "error", prefix |-> "Erreur lors de la recuperation du taux : ",
     msg |-> m, lines |-> <<>>]

(***************************************************************************)
(* One invocation of calculer_var                                          *)
(***************************************************************************)
Amounts == { I(-1), I(0), I(10000) }

DateTexts ==
    { Ymd(2024, 2, 28), Ymd(2024, 3, 1), Ymd(2024, 4, 29), Ymd(2025, 2, 30),
      OtherText, EmptyText }

NoFrame == [raised |-> FALSE, hasAdj |-> FALSE, Close |-> <<>>, AdjClose |-> <<>>]

Init ==
    /\ pc = "validate"
    /\ montant_usd \in Amounts
    /\ date_fact \in DateTexts
    /\ date_ech \in DateTexts
    /\ stress_test \in BOOLEAN
    /\ horizon = NaN
    /\ taux_usd_mad = NaN
    /\ data = NoFrame
    /\ taux = <<>>
    /\ returns_pct = <<>>
    /\ vol_current_pct = NaN
    /\ vol_current = NaN
    /\ dof = NaN
    /\ calls = <<>>
    /\ fits = 0
    /\ result = NoResult

\* line 48
ValidateInputs ==
    /\ pc = "validate"
    /\ LET v == validate_inputs(montant_usd, date_fact, date_ech)
       IN IF v.raised
          THEN /\ result' = ExceptHandler(v.msg)
               /\ pc' = "done"
               /\ UNCHANGED horizon
          ELSE /\ horizon' = v.value
               /\ pc' = "quote"
               /\ UNCHANGED result
    /\ UNCHANGED <<montant_usd, date_fact, date_ech, stress_test, taux_usd_mad,
                   data, taux, returns_pct, vol_current_pct, vol_current, dof,
                   calls, fits>>

\* LatestQuote going on to the history after a failed quote:
\* C8_StageOrder must not survive it
LatestQuoteContinues ==
    /\ pc = "quote"
    /\ \E dl \in QuoteDownloads :
         taux_usd_mad' = get_taux_usd_mad(dl).value
    /\ pc' = "download"
    /\ calls' = Append(calls, "latest")
    /\ UNCHANGED <<montant_usd, date_fact, date_ech, stress_test, horizon,
                   data, taux, returns_pct, vol_current_pct, vol_current, dof,
                   fits, result>>

\* lines 51-53
LatestQuote ==
    /\ pc = "quote"
    /\ \E dl \in QuoteDownloads :
         LET r == get_taux_usd_mad(dl)
         IN IF r.text
            THEN /\ result' = TauxErreur(r.msg)
                 /\ pc' = "done"
                 /\ UNCHANGED taux_usd_mad
            ELSE /\ taux_usd_mad' = r.value
                 /\ pc' = "download"
                 /\ UNCHANGED result
    /\ calls' = Append(calls, "latest")
    /\ UNCHANGED <<montant_usd, date_fact, date_ech, stress_test, horizon,
                   data, taux, returns_pct, vol_current_pct, vol_current, dof,
                   fits>>

\* lines 56-64
Download ==
    /\ pc = "download"
    /\ \E frame \in HistDownloads :
         LET r == Historical(frame)
         IN IF r.raised
            THEN /\ result' = ExceptHandler(r.msg)
                 /\ pc' = "done"
                 /\ data' = (IF frame.raised THEN data ELSE frame)
                 /\ UNCHANGED taux
            ELSE /\ data' = frame
                 /\ taux' = r.value
                 /\ pc' = "returns"
                 /\ UNCHANGED result
    /\ calls' = Append(calls, "history")
    /\ UNCHANGED <<montant_usd, date_fact, date_ech, stress_test, horizon,
                   taux_usd_mad, returns_pct, vol_current_pct, vol_current, dof,
                   fits>>

\* lines 67-68
Returns ==
    /\ pc = "returns"
    /\ returns_pct' = ToLogReturnsPct(taux)
    /\ pc' = "fit"
    /\ UNCHANGED <<montant_usd, date_fact, date_ech, stress_test, horizon,
                   taux_usd_mad, data, taux, vol_current_pct, vol_current, dof,
                   calls, fits, result>>

\* lines 71-76 and 84: the fit, then the reads of its volatility and nu
Fit ==
    /\ pc = "fit"
    /\ fits' = fits + 1
    /\ \E f \in FitOutcomes :
         IF f.raised
         THEN /\ result' = ExceptHandler(MsgFit)
              /\ pc' = "done"
              /\ UNCHANGED <<vol_current_pct, vol_current, dof>>
         ELSE /\ vol_current_pct' = f.vol_pct
              /\ vol_current' = Div(f.vol_pct, I(100))
              /\ dof' = f.nu
              /\ pc' = "clamp"
              /\ UNCHANGED result
    /\ UNCHANGED <<montant_usd, date_fact, date_ech, stress_test, horizon,
                   taux_usd_mad, data, taux, returns_pct, calls>>

\* lines 78-80
ClampVol ==
    /\ pc = "clamp"
    /\ vol_current' = Clamp(vol_current)
    /\ pc' = "var"
    /\ UNCHANGED <<montant_usd, date_fact, date_ech, stress_test, horizon,
                   taux_usd_mad, data, taux, returns_pct, vol_current_pct, dof,
                   calls, fits, result>>

\* lines 84-120
ComputeVaR ==
    /\ pc = "var"
    /\ result' = Report(Resume(montant_usd, horizon, taux_usd_mad, vol_current,
                               dof, stress_test))
    /\ pc' = "done"
    /\ UNCHANGED <<montant_usd, date_fact, date_ech, stress_test, horizon,
                   taux_usd_mad, data, taux, returns_pct, vol_current_pct,
                   vol_current, dof, calls, fits>>

Next ==
    \/ ValidateInputs
    \/ LatestQuote
    \/ Download
    \/ Returns
    \/ Fit
    \/ ClampVol
    \/ ComputeVaR

Spec == Init /\ [][Next]_vars

(***************************************************************************)
(* Properties                                                              *)
(***************************************************************************)
\* a text that holds a calendar date
Parseable(s) == s.kind = "ymd" /\ IsCalendarDate(s.y, s.m, s.d)

\* days from the invoice date to the settlement date, both parseable
DayDiff(fact, ech) == Ordinal(ech.y, ech.m, ech.d) - Ordinal(fact.y, fact.m, fact.d)

\* the invocation ended inside validate_inputs with message m
ValidationFailedWith(m) ==
    pc = "done" /\ calls = <<>> /\ result.kind = "error" /\ result.msg = m

\* C1: validate fails with InvalidAmount when the amount is <= 0, with
\* InvalidDate when a date text holds no calendar date, with InvalidHorizon
\* when the settlement date is before the invoice date or less than one day
\* after it, and otherwise returns the integer number of days, which is >= 1.
C1_ValidateContract ==
    pc # "validate" =>
        IF Le(montant_usd, I(0)) THEN ValidationFailedWith(MsgMontant)
        ELSE IF ~Parseable(date_fact) \/ ~Parseable(date_ech)
             THEN ValidationFailedWith(MsgDates)
        ELSE IF DayDiff(date_fact, date_ech) < 1
             THEN ValidationFailedWith(MsgOrdre) \/ ValidationFailedWith(MsgHorizon)
        ELSE /\ ~(pc = "done" /\ calls = <<>>)
             /\ horizon = I(DayDiff(date_fact, date_ech))
             /\ horizon.n >= 1

\* C2: after the clamp the volatility lies in [vol_min, vol_max] whatever
\* the fit produced (NaN and non-positive values included), and the two
\* bounds are fixed points of the clamp.
C2_ClampInBand ==
    pc = "var" =>
        /\ Le(vol_min, vol_current) /\ Le(vol_current, vol_max)
        /\ (Div(vol_current_pct, I(100)) = vol_min => vol_current = vol_min)
        /\ (Div(vol_current_pct, I(100)) = vol_max => vol_current = vol_max)

BaselineLabels ==
    <<LblTaux, LblComptabilise, LblEstime, LblVarJour, LblVarHorizon, LblPerte>>

\* every stage of the pipeline ran to its end
AllStagesDone ==
    /\ ~validate_inputs(montant_usd, date_fact, date_ech).raised
    /\ calls = <<"latest", "history">>
    /\ ~IsNaN(taux_usd_mad)
    /\ Len(taux) >= MinObs
    /\ fits = 1

\* C3: an invocation returns once, at its end, either an error text or a
\* report holding every baseline field in order; a failure of any stage
\* (validation, latest quote, history, sample size, fit) ends in an error
\* text, never in an escaped exception or a report with fields missing.
C3_ReportOrError ==
    /\ pc # "done" => result = NoResult
    /\ pc = "done" =>
        /\ result.kind \in {"report", "error"}
        /\ result.kind = "error" => result.lines = <<>> /\ result.msg # ""
        /\ result.kind = "report" =>
            /\ AllStagesDone
            /\ Len(result.lines) >= Len(BaselineLabels)
            /\ \A i \in 1..Len(BaselineLabels) :
                   result.lines[i].label = BaselineLabels[i]
        /\ ~AllStagesDone => result.kind = "error"

\* a late failure (the model fit) that was turned into an error text
C3_Witness == pc = "done" /\ fits = 1 /\ result.kind = "error"

\* C4: a report never shows a NaN: a non-finite quantile, daily VaR,
\* horizon VaR or loss ends the invocation with an error instead.
C4_NoNaNInReport ==
    result.kind = "report" =>
        \A i \in 1..Len(result.lines) :
            ~result.lines[i].value.nan /\ ~result.lines[i].param.nan

\* number of usable (non-missing) prices of a downloaded frame
Usable(frame) ==
    LET col == IF frame.hasAdj THEN frame.AdjClose ELSE frame.Close
    IN Cardinality({ i \in 1..Len(col) : ~IsNaN(col[i]) })

\* C5: the fit is attempted only on a history of at least 250 usable
\* prices, so on at least 249 returns; a history with no rows or fewer
\* usable prices ends the invocation with a data error before any fit.
C5_MinimumSample ==
    /\ (pc = "fit" \/ fits > 0) =>
           /\ Usable(data) >= MinObs
           /\ Len(returns_pct) >= MinObs - 1
    /\ (Len(calls) = 2 /\ Usable(data) < MinObs) =>
           /\ pc = "done"
           /\ fits = 0
           /\ result.kind = "error"
           /\ result.msg \in {MsgReseau, MsgHistVide, MsgHistInsuffisant}

\* the fit started on exactly 250 usable prices of a longer history
C5_Witness == fits = 1 /\ Usable(data) = MinObs /\ Len(data.Close) > MinObs

\* C6: the returns are the percent log-ratios of consecutive remaining
\* prices once the missing ones are removed: their number is the input
\* length - 1 - the number of missing prices, and none is NaN.
C6_ReturnTransform ==
    pc = "fit" =>
        LET col == IF data.hasAdj THEN data.AdjClose ELSE data.Close
            missing == Cardinality({ i \in 1..Len(col) : IsNaN(col[i]) })
            rest == SelectSeq(col, LAMBDA x : x.d # 0)
        IN /\ Len(returns_pct) = Len(col) - 1 - missing
           /\ \A i \in 1..Len(returns_pct) :
                  /\ returns_pct[i] =
                         [ln |-> Div(rest[i + 1], rest[i]), k |-> 100, d |-> 1]
                  /\ ~IsNaN(returns_pct[i])

\* returns computed from a history with a missing price between two others
C6_Witness ==
    /\ pc = "fit"
    /\ \E i \in 2..(Len(data.Close) - 1) :
           IsNaN((IF data.hasAdj THEN data.AdjClose ELSE data.Close)[i])

\* horizons over which monotonicity is compared
MaxHorizon == 12

Units(line) == line.value.units

\* C7: for a clamped volatility and a nu that are numbers, the horizon VaR
\* does not decrease when the horizon grows nor when the confidence goes
\* from 95% to 99%; and in a report the stressed VaR and the stressed loss
\* are never smaller than the baseline horizon VaR and potential loss.
C7_Monotone ==
    /\ (pc = "var" /\ ~IsNaN(vol_current) /\ ~IsNaN(dof)) =>
        LET hs == (1..MaxHorizon) \cup (IF IsNaN(horizon) THEN {} ELSE {horizon.n})
        IN \A base \in {[h \in hs |-> HorizonVaR(R(5, 100), dof, vol_current, I(h))]} :
           \A strs \in {[h \in hs |-> HorizonVaR(R(1, 100), dof, vol_current, I(h))]} :
               /\ \A h1, h2 \in hs :
                      h1 <= h2 => Le(base[h1], base[h2]) /\ Le(strs[h1], strs[h2])
               /\ \A h \in hs : Le(base[h], strs[h])
    /\ (result.kind = "report" /\ stress_test) =>
        /\ ~(Units(result.lines[7]) < Units(result.lines[5]))
        /\ ~(Units(result.lines[8]) < Units(result.lines[6]))
        /\ (~IsNaN(vol_current) /\ ~IsNaN(dof) /\ ~IsNaN(horizon)) =>
               /\ ~result.lines[7].value.nan /\ ~result.lines[5].value.nan
               /\ Units(result.lines[7]) >= Units(result.lines[5])
               /\ Units(result.lines[8]) >= Units(result.lines[6])

\* a report whose stressed loss is strictly above the baseline loss
C7_Witness ==
    /\ result.kind = "report" /\ stress_test
    /\ ~IsNaN(vol_current) /\ ~IsNaN(dof) /\ ~IsNaN(horizon)
    /\ Units(result.lines[8]) > Units(result.lines[6])
    /\ horizon.n > 1

\* what holds of the calls in every state
CallOrder ==
    /\ calls \in {<<>>, <<"latest">>, <<"latest", "history">>}
    /\ pc = "validate" => calls = <<>>
    /\ validate_inputs(montant_usd, date_fact, date_ech).raised => calls = <<>>
    /\ Len(calls) = 2 => ~IsNaN(taux_usd_mad)
    /\ (pc \in {"returns", "fit", "clamp", "var"} \/ fits > 0) => Len(calls) = 2

\* C8: validation precedes every network call, the latest quote precedes
\* the history, each is fetched at most once, and a failure is terminal: no
\* call follows a failed validation, no history follows a failed quote, and
\* nothing happens once the invocation has returned.
C8_StageOrder ==
    /\ []CallOrder
    /\ [][ /\ result = NoResult
           /\ pc # "done"
           /\ \/ calls' = calls
              \/ pc = "quote" /\ calls = <<>> /\ calls' = <<"latest">>
              \/ pc = "download" /\ calls = <<"latest">>
                                  /\ calls' = <<"latest", "history">> ]_vars

\* the quote failed and the invocation ended without fetching the history
C8_Witness ==
    pc = "done" /\ calls = <<"latest">> /\ result.kind = "error"

\* C9: the daily VaR a report shows lies between 0.4% and 0.6%, whatever
\* volatility and nu the fit produced (stated here for the reports whose
\* volatility, nu and horizon are numbers).
C9_DailyVaRBand ==
    (result.kind = "report" /\ ~IsNaN(vol_current) /\ ~IsNaN(dof) /\ ~IsNaN(horizon)) =>
        /\ ~result.lines[4].value.nan
        /\ Units(result.lines[4]) >= 4000
        /\ Units(result.lines[4]) <= 6000

\* C10: the baseline lines of the report are the same with stress testing
\* on and off; the two stressed lines are there exactly when it is on, and
\* are computed from the same clamped volatility, nu, horizon, amount and rate.
C10_StressFrame ==
    result.kind = "report" =>
        LET off == Resume(montant_usd, horizon, taux_usd_mad, vol_current, dof, FALSE)
            on  == Resume(montant_usd, horizon, taux_usd_mad, vol_current, dof, TRUE)
            shown == { result.lines[i].label : i \in 1..Len(result.lines) }
            stressed == HorizonVaR(R(1, 100), dof, vol_current, horizon)
        IN /\ SubSeq(result.lines, 1, 6) = off
           /\ SubSeq(on, 1, 6) = off
           /\ Len(off) = 6
           /\ ({LblVarStress, LblPerteStress} \subseteq shown) = stress_test
           /\ ({LblVarStress, LblPerteStress} \cap shown # {}) = stress_test
           /\ stress_test =>
                /\ result.lines[7].value = Fmt(Mul(stressed, I(100)), 4)
                /\ result.lines[8].value =
                       Fmt(Mul(Mul(stressed, montant_usd), taux_usd_mad), 0)

\* a report with stress testing on whose stressed loss differs from the baseline
C10_Witness ==
    /\ result.kind = "report" /\ stress_test
    /\ Len(result.lines) = 8
    /\ result.lines[8].value # result.lines[6].value

====
